---- MODULE Spec2Model ----
(***************************************************************************)
(* Model of the CADC bearer-token provider                                 *)
(* (python/lsst/daf/butler/remote_butler/authentication/cadc.py).          *)
(*                                                                         *)
(* State: the CADC_TOKEN slot of os.environ, the _token field of each      *)
(* CadcAuthenticationProvider instance, the wall clock, the presence of    *)
(* ~/.ssl/cadcproxy.pem and, for every header call in progress, its        *)
(* position inside the token property together with a record of what the   *)
(* call has done so far.                                                   *)
(***************************************************************************)
EXTENDS Integers, Sequences, FiniteSets, TLC

VARIABLES environ, _token, constructed, refreshed, unused, now, cert_exists, calls

vars == <<environ, _token, constructed, refreshed, unused, now, cert_exists, calls>>

(***************************************************************************)
(* Bounds                                                                  *)
(***************************************************************************)
MaxTime == 2
RecursionLimit == 2

Instances == {"A", "B", "W"}
(* the instances that come into being through __init__; "W" only through   *)
(* unpickling                                                              *)
Constructible == {"A", "B"}
CallOrder == <<"c1", "c2">>
Calls == {CallOrder[k] : k \in 1 .. Len(CallOrder)}
Urls == {"https://auth.example/token", "https://auth2.example/token"}

(***************************************************************************)
(* Tokens.  A token is an opaque string; what the code does with it is     *)
(* base64-decode it, utf-8-decode the bytes and search the text for        *)
(* expirytime=<digits>.  A token is represented by what each of these      *)
(* steps yields: enc says how far decoding gets, text is the decoded       *)
(* text as its sequence of key=value fields.  val = NonDigit stands for a  *)
(* value that does not start with a digit.                                 *)
(***************************************************************************)
NonDigit == -1

None == [enc |-> "None", text |-> <<>>]

Fld(k, v) == [key |-> k, val |-> v]

TokBadB64 == [enc |-> "badb64", text |-> <<>>]
TokBadUtf8 == [enc |-> "badutf8", text |-> <<>>]
TokNoExp == [enc |-> "ok", text |-> <<Fld("userid", 7)>>]
TokExp(e) == [enc |-> "ok", text |-> <<Fld("expirytime", NonDigit), Fld("expirytime", e)>>]
TokTwo(e1, e2) == [enc |-> "ok", text |-> <<Fld("expirytime", e1), Fld("expirytime", e2)>>]

(* the strings that occur as CADC_TOKEN values and as response bodies *)
Strings == {TokBadB64, TokBadUtf8, TokNoExp, TokExp(1), TokTwo(2, 0)}

Tokens == Strings \cup {None}

(***************************************************************************)
(* base64.b64decode / bytes.decode('utf-8') / re.search, lines 99-104.     *)
(* Each returns a record saying whether it raised.                         *)
(***************************************************************************)
b64decode(t) ==
    IF t.enc = "badb64"
    THEN [raised |-> TRUE, exc |-> "binascii.Error", enc |-> t.enc, text |-> <<>>]
    ELSE [raised |-> FALSE, exc |-> "none", enc |-> t.enc, text |-> t.text]

decode(b) ==
    IF b.enc = "badutf8"
    THEN [raised |-> TRUE, exc |-> "UnicodeDecodeError", text |-> <<>>]
    ELSE [raised |-> FALSE, exc |-> "none", text |-> b.text]

IsMatch(f) == f.key = "expirytime" /\ f.val # NonDigit

RECURSIVE re_search(_)
re_search(s) ==
    IF s = <<>> THEN [found |-> FALSE, group1 |-> 0]
    ELSE IF IsMatch(Head(s)) THEN [found |-> TRUE, group1 |-> Head(s).val]
    ELSE re_search(Tail(s))

NotRaised(v) == [raised |-> FALSE, exc |-> "none", value |-> v]
Raised(e) == [raised |-> TRUE, exc |-> e, value |-> FALSE]

(* _token_is_valid comparing with >= instead of > *)
token_is_valid_ge(t, T) ==
    IF t = None THEN NotRaised(FALSE)
    ELSE LET decoded_bytes == b64decode(t) IN
         IF decoded_bytes.raised THEN NotRaised(FALSE)
         ELSE LET decoded_str == decode(decoded_bytes) IN
              IF decoded_str.raised THEN NotRaised(FALSE)
              ELSE LET match == re_search(decoded_str.text) IN
                   IF ~match.found THEN NotRaised(FALSE)
                   ELSE NotRaised(match.group1 >= T)

(* _token_is_valid without the except clause of lines 113-115 *)
token_is_valid_raises(t, T) ==
    IF t = None THEN NotRaised(FALSE)
    ELSE LET decoded_bytes == b64decode(t) IN
         IF decoded_bytes.raised THEN Raised(decoded_bytes.exc)
         ELSE LET decoded_str == decode(decoded_bytes) IN
              IF decoded_str.raised THEN Raised(decoded_str.exc)
              ELSE LET match == re_search(decoded_str.text) IN
                   IF ~match.found THEN NotRaised(FALSE)
                   ELSE NotRaised(match.group1 > T)

(***************************************************************************)
(* _token_is_valid, lines 92-115, for the instance token t at time T.      *)
(***************************************************************************)
token_is_valid(t, T) ==
    IF t = None THEN NotRaised(FALSE)
    ELSE LET decoded_bytes == b64decode(t) IN
         IF decoded_bytes.raised THEN NotRaised(FALSE)
         ELSE LET decoded_str == decode(decoded_bytes) IN
              IF decoded_str.raised THEN NotRaised(FALSE)
              ELSE LET match == re_search(decoded_str.text) IN
                   IF ~match.found THEN NotRaised(FALSE)
                   ELSE LET exp_time == match.group1
                            current_time == T
                        IN NotRaised(exp_time > current_time)

(***************************************************************************)
(* Results of a header call.                                               *)
(***************************************************************************)
NoResult == [kind |-> "none", Authorization |-> <<"", None>>,
             exc |-> "none", msg |-> "none", cause |-> "none"]

Headers(t) == [kind |-> "headers", Authorization |-> <<"Bearer", t>>,
               exc |-> "none", msg |-> "none", cause |-> "none"]

Error(e, m, c) == [kind |-> "error", Authorization |-> <<"", None>>,
                   exc |-> e, msg |-> m, cause |-> c]

(***************************************************************************)
(* HTTP responses.  A response is what requests.get gives back: either     *)
(* the transport fails (a RequestException is raised by get), or a         *)
(* response with a status and a body arrives.                              *)
(***************************************************************************)
NoUrl == "none"

DiscoveryBodies == {[json |-> "invalid", field |-> FALSE, url |-> NoUrl],
                    [json |-> "ok", field |-> FALSE, url |-> NoUrl]}
                   \cup {[json |-> "ok", field |-> TRUE, url |-> u] : u \in Urls}

DiscoveryResponses ==
    {[transport |-> "ConnectionError", status_ok |-> FALSE,
      body |-> [json |-> "invalid", field |-> FALSE, url |-> NoUrl]],
     [transport |-> "ok", status_ok |-> FALSE,
      body |-> [json |-> "invalid", field |-> FALSE, url |-> NoUrl]]}
    \cup {[transport |-> "ok", status_ok |-> TRUE, body |-> b] : b \in DiscoveryBodies}

RefreshResponses ==
    {[transport |-> "ConnectionError", status_ok |-> FALSE, text |-> TokNoExp],
     [transport |-> "ok", status_ok |-> FALSE, text |-> TokNoExp]}
    \cup {[transport |-> "ok", status_ok |-> TRUE, text |-> s] : s \in Strings}

(***************************************************************************)
(* Whether response.json() reports an undecodable body as a                *)
(* requests.exceptions.RequestException depends on the installed requests  *)
(* (JSONDecodeError derives from RequestException from 2.27 on, before     *)
(* that a plain ValueError is raised).                                     *)
(***************************************************************************)
JsonErrors == {"requests.JSONDecodeError", "ValueError"}

IsRequestException(e) ==
    e \in {"ConnectionError", "HTTPError", "requests.JSONDecodeError", "SSLError"}

(***************************************************************************)
(* What requests.get(auth_url, cert=cadcproxy_file) does when the file is  *)
(* absent: requests raises OSError from cert_verify; releases that do not  *)
(* check the path fail in the TLS layer with SSLError.                     *)
(***************************************************************************)
CertErrors == {"OSError", "SSLError"}

(***************************************************************************)
(* get_cadc_authorize_url, lines 45-54, applied to the response r that     *)
(* requests.get(CADC_OPENID_CONFIG_URL) yields.                            *)
(***************************************************************************)
UrlRaised(e, m, c) == [raised |-> TRUE, exc |-> e, msg |-> m, cause |-> c, url |-> NoUrl]

get_cadc_authorize_url(r, jsonerr) ==
    LET thrown == IF r.transport # "ok" THEN r.transport
                  ELSE IF ~r.status_ok THEN "HTTPError"
                  ELSE IF r.body.json # "ok" THEN jsonerr
                  ELSE IF ~r.body.field THEN "KeyError"
                  ELSE "none"
    IN IF thrown = "none"
       THEN [raised |-> FALSE, exc |-> "none", msg |-> "none", cause |-> "none",
             url |-> r.body.url]
       ELSE IF IsRequestException(thrown)
       THEN UrlRaised("RuntimeError", "Could not retrieve CADC authorization URL", thrown)
       ELSE UrlRaised(thrown, "none", "none")

(***************************************************************************)
(* Header calls.                                                           *)
(***************************************************************************)
NoInst == "none"

IdleCall == [pc |-> "idle", inst |-> NoInst, op |-> "none", depth |-> 0,
             ndisc |-> 0, nref |-> 0,
             auth_url |-> NoUrl, response_text |-> None, first_text |-> None,
             discovered |-> NoUrl, requested |-> NoUrl, checked |-> None,
             pre_token |-> None, pre_environ |-> None,
             first_valid |-> FALSE,
             result |-> NoResult]

Ops == {"get_server_headers", "get_datastore_headers"}

Init ==
    /\ environ \in Tokens
    /\ _token = [i \in Instances |-> None]
    /\ constructed = [i \in Instances |-> FALSE]
    /\ refreshed = [i \in Instances |-> FALSE]
    /\ unused = {}
    /\ now = 0
    /\ cert_exists \in BOOLEAN
    /\ calls = [c \in Calls |-> IdleCall]

(* __init__ that does not read CADC_TOKEN *)
Construct_NoRead(i) ==
    /\ i \in Constructible
    /\ ~constructed[i]
    /\ constructed' = [constructed EXCEPT ![i] = TRUE]
    /\ _token' = [_token EXCEPT ![i] = None]
    /\ UNCHANGED <<unused, environ, refreshed, now, cert_exists, calls>>

(* __init__, lines 65-66 *)
Construct(i) ==
    /\ i \in Constructible
    /\ ~constructed[i]
    /\ constructed' = [constructed EXCEPT ![i] = TRUE]
    /\ _token' = [_token EXCEPT ![i] = environ]
    /\ UNCHANGED <<unused, environ, refreshed, now, cert_exists, calls>>

(* pickle.dumps(i) followed by pickle.loads: the class defines neither     *)
(* __reduce__ nor __getstate__ (lines 57-66), so the copy j is made by     *)
(* object.__new__ and given a copy of __dict__; __init__ does not run.     *)
(* unused holds the copies no header call has used yet.  The transfer is   *)
(* made between header calls.                                              *)
Unpickle(i, j) ==
    /\ \A d \in Calls : calls[d].pc = "idle"
    /\ constructed[i]
    /\ j \notin Constructible
    /\ ~constructed[j]
    /\ constructed' = [constructed EXCEPT ![j] = TRUE]
    /\ _token' = [_token EXCEPT ![j] = _token[i]]
    /\ unused' = unused \cup {j}
    /\ UNCHANGED <<environ, refreshed, now, cert_exists, calls>>

(* time.time() advances *)
Tick ==
    /\ now < MaxTime
    /\ now' = now + 1
    /\ UNCHANGED <<unused, environ, _token, constructed, refreshed, cert_exists, calls>>

(* the call slot a new header call takes: the first one not in use *)
FirstIdle ==
    LET k == CHOOSE k \in 1 .. Len(CallOrder) :
                 /\ calls[CallOrder[k]].pc = "idle"
                 /\ \A j \in 1 .. (k - 1) : calls[CallOrder[j]].pc # "idle"
    IN CallOrder[k]

(* get_server_headers / get_datastore_headers entered, lines 117-121 *)
Start(c, i, op) ==
    /\ \A d \in Calls : calls[d].pc = "idle"
    /\ c = FirstIdle
    /\ constructed[i]
    /\ calls' = [calls EXCEPT ![c] = [IdleCall EXCEPT !.pc = "check", !.inst = i,
                    !.op = op, !.depth = 1,
                    !.pre_token = _token[i], !.pre_environ = environ]]
    /\ unused' = unused \ {i}
    /\ UNCHANGED <<environ, _token, constructed, refreshed, now, cert_exists>>

(* a header call entered by a thread while other calls may be in progress *)
StartConcurrent(c, i, op) ==
    /\ \E d \in Calls : calls[d].pc = "idle"
    /\ c = FirstIdle
    /\ constructed[i]
    /\ calls' = [calls EXCEPT ![c] = [IdleCall EXCEPT !.pc = "check", !.inst = i,
                    !.op = op, !.depth = 1,
                    !.pre_token = _token[i], !.pre_environ = environ]]
    /\ unused' = unused \ {i}
    /\ UNCHANGED <<environ, _token, constructed, refreshed, now, cert_exists>>

(* token without the fast path of lines 70-71 *)
Check_NoFastPath(c) ==
    /\ calls[c].pc = "check"
    /\ calls' = [calls EXCEPT ![c].pc = "discover"]
    /\ UNCHANGED <<unused, environ, _token, constructed, refreshed, now, cert_exists>>

(* token, line 70: the validity check; checked is the token that passed *)
Check(c) ==
    /\ calls[c].pc = "check"
    /\ LET i == calls[c].inst
           r == token_is_valid(_token[i], now)
           seen == [calls[c] EXCEPT
                       !.first_valid = IF calls[c].depth = 1
                                       THEN (~r.raised /\ r.value) ELSE @]
       IN calls' = [calls EXCEPT ![c] =
              IF r.raised
              THEN [seen EXCEPT !.pc = "done", !.result = Error(r.exc, "none", "none")]
              ELSE IF r.value
              THEN [seen EXCEPT !.pc = "fast", !.checked = _token[i]]
              ELSE [seen EXCEPT !.pc = "discover"]]
    /\ UNCHANGED <<unused, environ, _token, constructed, refreshed, now, cert_exists>>

(* the fast path also writing the instance token back to CADC_TOKEN *)
FastReturn_WritesStore(c) ==
    /\ calls[c].pc = "fast"
    /\ calls' = [calls EXCEPT ![c] =
           [@ EXCEPT !.pc = "done", !.result = Headers(_token[calls[c].inst])]]
    /\ environ' = _token[calls[c].inst]
    /\ UNCHANGED <<unused, _token, constructed, refreshed, now, cert_exists>>

(* token, line 71: return self._token, a second read of the field; the     *)
(* header is built from it, lines 118 and 121                              *)
FastReturn(c) ==
    /\ calls[c].pc = "fast"
    /\ calls' = [calls EXCEPT ![c] =
           [@ EXCEPT !.pc = "done", !.result = Headers(_token[calls[c].inst])]]
    /\ UNCHANGED <<unused, environ, _token, constructed, refreshed, now, cert_exists>>

(* token, line 78: auth_url = get_cadc_authorize_url() *)
Discover(c) ==
    /\ calls[c].pc = "discover"
    /\ \E r \in DiscoveryResponses, jsonerr \in JsonErrors :
         LET u == get_cadc_authorize_url(r, jsonerr)
             sent == [calls[c] EXCEPT !.ndisc = @ + 1]
         IN calls' = [calls EXCEPT ![c] =
                IF u.raised
                THEN [sent EXCEPT !.pc = "done", !.result = Error(u.exc, u.msg, u.cause)]
                ELSE [sent EXCEPT !.pc = "refresh", !.auth_url = u.url,
                         !.discovered = r.body.url]]
    /\ UNCHANGED <<unused, environ, _token, constructed, refreshed, now, cert_exists>>

(* token, lines 79-83: the certificate-authenticated GET to auth_url, the   *)
(* url recorded as requested; auth_url is not read again once the request  *)
(* has been made                                                           *)
RefreshOutcome(r, certerr) ==
    LET thrown == IF ~cert_exists THEN certerr
                  ELSE IF r.transport # "ok" THEN r.transport
                  ELSE IF ~r.status_ok THEN "HTTPError"
                  ELSE "none"
    IN IF thrown = "none" THEN NoResult
       ELSE IF IsRequestException(thrown)
       THEN Error("RuntimeError", "Could not retrieve CADC token", thrown)
       ELSE Error(thrown, "none", "none")

(* the refresh request sent to the fixed CADC_AC_ENDPOINT of line 40        *)
(* instead of the discovered auth_url                                      *)
Refresh_Hardcoded(c) ==
    /\ calls[c].pc = "refresh"
    /\ \E r \in RefreshResponses, certerr \in CertErrors :
         LET o == RefreshOutcome(r, certerr)
             sent == [calls[c] EXCEPT !.nref = @ + 1,
                         !.requested = "https://auth.example/token"]
         IN calls' = [calls EXCEPT ![c] =
                IF o.kind = "error"
                THEN [sent EXCEPT !.pc = "done", !.result = o]
                ELSE [sent EXCEPT !.pc = "setenv", !.auth_url = NoUrl,
                         !.response_text = r.text,
                         !.first_text = IF calls[c].nref = 0 THEN r.text ELSE @]]
    /\ UNCHANGED <<unused, environ, _token, constructed, refreshed, now, cert_exists>>

Refresh(c) ==
    /\ calls[c].pc = "refresh"
    /\ \E r \in RefreshResponses, certerr \in CertErrors :
         LET o == RefreshOutcome(r, certerr)
             sent == [calls[c] EXCEPT !.nref = @ + 1, !.requested = calls[c].auth_url]
         IN calls' = [calls EXCEPT ![c] =
                IF o.kind = "error"
                THEN [sent EXCEPT !.pc = "done", !.result = o]
                ELSE [sent EXCEPT !.pc = "setenv", !.auth_url = NoUrl,
                         !.response_text = r.text,
                         !.first_text = IF calls[c].nref = 0 THEN r.text ELSE @]]
    /\ UNCHANGED <<unused, environ, _token, constructed, refreshed, now, cert_exists>>

(* token, line 86: os.environ[CADC_TOKEN_ENV_VAR] = response.text; the     *)
(* request and its response are over                                       *)
SetEnviron(c) ==
    /\ calls[c].pc = "setenv"
    /\ environ' = calls[c].response_text
    /\ calls' = [calls EXCEPT ![c] =
           [@ EXCEPT !.pc = "settoken", !.discovered = NoUrl, !.requested = NoUrl]]
    /\ UNCHANGED <<unused, _token, constructed, refreshed, now, cert_exists>>

(* token without the assignment of line 88 *)
SetToken_Skipped(c) ==
    /\ calls[c].pc = "settoken"
    /\ calls' = [calls EXCEPT ![c].pc = "recurse"]
    /\ UNCHANGED <<unused, environ, _token, constructed, refreshed, now, cert_exists>>

(* token, line 88: self._token = os.environ.get(CADC_TOKEN_ENV_VAR) *)
SetToken(c) ==
    /\ calls[c].pc = "settoken"
    /\ _token' = [_token EXCEPT ![calls[c].inst] = environ]
    /\ refreshed' = [refreshed EXCEPT ![calls[c].inst] = TRUE]
    /\ calls' = [calls EXCEPT ![c].pc = "recurse"]
    /\ UNCHANGED <<unused, environ, constructed, now, cert_exists>>

(* token, line 90: return self.token; the interpreter's recursion limit    *)
(* ends the chain of nested evaluations with RecursionError                *)
Recurse(c) ==
    /\ calls[c].pc = "recurse"
    /\ calls' = [calls EXCEPT ![c] =
           IF calls[c].depth >= RecursionLimit
           THEN [@ EXCEPT !.pc = "done", !.result = Error("RecursionError", "none", "none")]
           ELSE [@ EXCEPT !.pc = "check", !.depth = @ + 1]]
    /\ UNCHANGED <<unused, environ, _token, constructed, refreshed, now, cert_exists>>

(* the header call hands its result to the caller *)
Return(c) ==
    /\ calls[c].pc = "done"
    /\ calls' = [calls EXCEPT ![c] = IdleCall]
    /\ UNCHANGED <<unused, environ, _token, constructed, refreshed, now, cert_exists>>

Next ==
    \/ \E i \in Instances : Construct(i)
    \/ Tick
    \/ \E c \in Calls, i \in Instances, op \in Ops : Start(c, i, op)
    \/ \E c \in Calls : Check(c)
    \/ \E c \in Calls : FastReturn(c)
    \/ \E c \in Calls : Discover(c)
    \/ \E c \in Calls : Refresh(c)
    \/ \E c \in Calls : SetEnviron(c)
    \/ \E c \in Calls : SetToken(c)
    \/ \E c \in Calls : Recurse(c)
    \/ \E c \in Calls : Return(c)

Spec == Init /\ [][Next]_vars

(* the program with one constructed instance and its pickled copy *)
NextTransfer ==
    \/ Construct("A")
    \/ \E i \in Instances, j \in Instances : Unpickle(i, j)
    \/ Tick
    \/ \E c \in Calls, i \in Instances, op \in Ops : Start(c, i, op)
    \/ \E c \in Calls : Check(c)
    \/ \E c \in Calls : FastReturn(c)
    \/ \E c \in Calls : Discover(c)
    \/ \E c \in Calls : Refresh(c)
    \/ \E c \in Calls : SetEnviron(c)
    \/ \E c \in Calls : SetToken(c)
    \/ \E c \in Calls : Recurse(c)
    \/ \E c \in Calls : Return(c)

SpecTransfer == Init /\ [][NextTransfer]_vars

(* the program with header calls made from several threads on one          *)
(* instance, one call per thread, from the moment the stored token has     *)
(* expired and within one second of the clock; the certificate file is     *)
(* there, and get_datastore_headers stands for both header operations,     *)
(* which have the same body                                                *)
InitConcurrent ==
    /\ environ = TokExp(1)
    /\ _token = [i \in Instances |-> None]
    /\ constructed = [i \in Instances |-> FALSE]
    /\ refreshed = [i \in Instances |-> FALSE]
    /\ unused = {}
    /\ now = 1
    /\ cert_exists = TRUE
    /\ calls = [c \in Calls |-> IdleCall]

NextConcurrent ==
    \/ Construct("A")
    \/ \E c \in Calls, i \in Instances : StartConcurrent(c, i, "get_datastore_headers")
    \/ \E c \in Calls : Check(c)
    \/ \E c \in Calls : FastReturn(c)
    \/ \E c \in Calls : Discover(c)
    \/ \E c \in Calls : Refresh(c)
    \/ \E c \in Calls : SetEnviron(c)
    \/ \E c \in Calls : SetToken(c)
    \/ \E c \in Calls : Recurse(c)

SpecConcurrent == InitConcurrent /\ [][NextConcurrent]_vars

(***************************************************************************)
(* Vocabulary of the properties                                            *)
(***************************************************************************)
Done(c) == calls[c].pc = "done"

Inst(c) == calls[c].inst

(* the decoded text of t carries expirytime=<digits> *)
HasExpiry(t) ==
    /\ t.enc = "ok"
    /\ \E k \in DOMAIN t.text : IsMatch(t.text[k])

(* the digits of the first expirytime=<digits> of the decoded text *)
FirstExpiry(t) ==
    LET k == CHOOSE k \in DOMAIN t.text :
                 /\ IsMatch(t.text[k])
                 /\ \A j \in 1 .. (k - 1) : ~IsMatch(t.text[j])
    IN t.text[k].val

(* t is decodable with an expiry time strictly after T *)
ValidAt(t, T) == HasExpiry(t) /\ FirstExpiry(t) > T

(* absent, undecodable or without an expirytime=<digits> field *)
Malformed(t) ==
    \/ t = None
    \/ t.enc \in {"badb64", "badutf8"}
    \/ t.enc = "ok" /\ \A k \in DOMAIN t.text : ~IsMatch(t.text[k])

DecodeErrors == {"binascii.Error", "UnicodeDecodeError"}

(* the call ended without any of its requests failing *)
NoRequestFailed(c) ==
    \/ calls[c].result.kind = "headers"
    \/ calls[c].result.exc = "RecursionError"

(***************************************************************************)
(* C1: a header call that finds a valid cached token (decodable, expiry    *)
(* time strictly after now) issues no discovery and no refresh request,    *)
(* returns Authorization: Bearer <that token>, and leaves the instance     *)
(* token and CADC_TOKEN as they were.                                      *)
(***************************************************************************)
C1_FastPath ==
    \A c \in Calls :
        (Done(c) /\ ValidAt(calls[c].pre_token, now)) =>
            /\ calls[c].ndisc = 0
            /\ calls[c].nref = 0
            /\ calls[c].result = Headers(calls[c].pre_token)
            /\ _token[Inst(c)] = calls[c].pre_token
            /\ environ = calls[c].pre_environ

C1_Witness ==
    \E c \in Calls :
        /\ Done(c)
        /\ calls[c].op = "get_datastore_headers"
        /\ ValidAt(calls[c].pre_token, now)
        /\ calls[c].result.kind = "headers"

(***************************************************************************)
(* C2: a header call that starts with an expired token and none of whose   *)
(* requests fails has refreshed, and leaves both the instance token and    *)
(* CADC_TOKEN equal to the body the authorization endpoint returned last;  *)
(* a later call on an instance whose token came from a refresh and has     *)
(* not expired issues no request.                                          *)
(***************************************************************************)
C2_RefreshThenFastPath ==
    \A c \in Calls :
        /\ (Done(c) /\ ~calls[c].first_valid /\ HasExpiry(calls[c].pre_token)
                /\ NoRequestFailed(c)) =>
              /\ calls[c].nref >= 1
              /\ _token[Inst(c)] = calls[c].response_text
              /\ environ = calls[c].response_text
        /\ (Done(c) /\ refreshed[Inst(c)] /\ ValidAt(calls[c].pre_token, now)) =>
              /\ calls[c].ndisc = 0
              /\ calls[c].nref = 0

C2_Witness ==
    \E c \in Calls :
        /\ Done(c)
        /\ refreshed[Inst(c)]
        /\ HasExpiry(calls[c].pre_environ)
        /\ ValidAt(calls[c].pre_token, now)
        /\ calls[c].pre_token = calls[c].pre_environ
        /\ calls[c].ndisc = 0
        /\ calls[c].result = Headers(calls[c].pre_token)

(***************************************************************************)
(* C3: one header call performs at most one discovery request and at most  *)
(* one refresh request, whatever the authorization endpoint answers.       *)
(***************************************************************************)
C3_AtMostOneRequest ==
    \A c \in Calls : calls[c].ndisc <= 1 /\ calls[c].nref <= 1

(***************************************************************************)
(* C4: after a refresh that succeeded at the HTTP level the call stores    *)
(* the body, re-derives validity once and returns that token, even if it   *)
(* is still expired: it never goes back to discovery.                      *)
(***************************************************************************)
C4_ReturnsAfterRefresh ==
    \A c \in Calls :
        calls[c].first_text # None =>
            /\ calls[c].pc \in {"setenv", "settoken", "recurse", "check", "done"}
            /\ Done(c) => calls[c].result = Headers(calls[c].first_text)

(***************************************************************************)
(* C5: with no cached token, the certificate file present, discovery       *)
(* returning an endpoint and the refresh answering with body B, the call   *)
(* returns Authorization: Bearer B.                                        *)
(***************************************************************************)
C5_ReturnsBody ==
    \A c \in Calls :
        (Done(c) /\ calls[c].pre_token = None /\ cert_exists
            /\ calls[c].first_text # None /\ NoRequestFailed(c)) =>
            calls[c].result = Headers(calls[c].first_text)

(***************************************************************************)
(* C6: for a decodable token carrying expirytime=E checked at time T, the  *)
(* validity check answers true iff E > T: the call takes the fast path     *)
(* with that token exactly when E > T; E = T and E < T send it to the      *)
(* refresh.                                                                *)
(***************************************************************************)
C6_StrictExpiry ==
    [][\A c \in Calls :
          (calls[c].pc = "check" /\ calls'[c].pc # "check"
              /\ HasExpiry(_token[Inst(c)])) =>
             /\ (FirstExpiry(_token[Inst(c)]) > now) =>
                    /\ calls'[c].pc = "fast"
                    /\ calls'[c].checked = _token[Inst(c)]
             /\ (FirstExpiry(_token[Inst(c)]) <= now) =>
                    /\ calls'[c].pc = "discover"
                    /\ calls'[c].result = NoResult]_vars

C6_Witness ==
    \E c \in Calls :
        /\ calls[c].pc = "discover"
        /\ calls[c].depth = 1
        /\ calls[c].ndisc = 0
        /\ HasExpiry(calls[c].pre_token)
        /\ FirstExpiry(calls[c].pre_token) = now

(***************************************************************************)
(* C7: for an absent token, a token that fails base64 or utf-8 decoding    *)
(* and a decodable token without expirytime=<digits>, the validity check   *)
(* answers false (the call goes on to the refresh) and raises nothing; no  *)
(* header call ever ends with a decode error.                              *)
(***************************************************************************)
C7_CheckNeverRaises ==
    [][\A c \in Calls :
          /\ calls'[c].result.exc \notin DecodeErrors
          /\ (calls[c].pc = "check" /\ calls'[c].pc # "check"
                 /\ Malformed(_token[Inst(c)])) =>
                /\ calls'[c].pc = "discover"
                /\ calls'[c].result = NoResult]_vars

C7_Witness ==
    \E c \in Calls :
        /\ calls[c].pc = "discover"
        /\ calls[c].depth = 1
        /\ calls[c].ndisc = 0
        /\ calls[c].pre_token.enc \in {"badb64", "badutf8"}

(***************************************************************************)
(* C8: with an invalid cached token and no certificate file, a header      *)
(* call has one policy outcome: it raises the missing-certificate error    *)
(* or it returns headers built from the stale token, whatever the network  *)
(* does.                                                                   *)
(***************************************************************************)
C8_SinglePolicy ==
    \A c \in Calls :
        (Done(c) /\ ~calls[c].first_valid /\ ~cert_exists) =>
            \/ calls[c].result.kind = "error" /\ calls[c].result.exc = "OSError"
            \/ calls[c].result = Headers(calls[c].pre_token)

(***************************************************************************)
(* C9: when discovery or the refresh request fails (transport failure or   *)
(* non-success status), the call raises the error carrying the cause and   *)
(* leaves the instance token and CADC_TOKEN as they were before the call.  *)
(***************************************************************************)
C9_FailureKeepsState ==
    \A c \in Calls :
        (Done(c) /\ calls[c].result.cause \in {"ConnectionError", "HTTPError"}) =>
            /\ calls[c].result.kind = "error"
            /\ calls[c].result.exc = "RuntimeError"
            /\ _token[Inst(c)] = calls[c].pre_token
            /\ environ = calls[c].pre_environ

(***************************************************************************)
(* C10: every failure of endpoint discovery (document not fetched, body    *)
(* not parsed, authorization_endpoint missing) is the one discovery error, *)
(* raised before any refresh request and with CADC_TOKEN untouched.        *)
(***************************************************************************)
C10_OneDiscoveryError ==
    \A c \in Calls :
        (Done(c) /\ calls[c].result.kind = "error"
            /\ calls[c].ndisc = 1 /\ calls[c].nref = 0) =>
            /\ calls[c].result.exc = "RuntimeError"
            /\ calls[c].result.msg = "Could not retrieve CADC authorization URL"
            /\ environ = calls[c].pre_environ

(***************************************************************************)
(* C11: once an instance A has refreshed and CADC_TOKEN holds the token T  *)
(* of that refresh, an instance B constructed then has _token = T, and a   *)
(* header call of B made while T is valid returns Bearer T with no         *)
(* discovery and no refresh request.                                       *)
(***************************************************************************)
C11_StoreRoundTrip ==
    /\ [][\A a \in Instances, b \in Instances :
             (refreshed[a] /\ environ = _token[a]
                 /\ ~constructed[b] /\ constructed'[b]) =>
                 _token'[b] = _token[a]]_vars
    /\ [](\A c \in Calls :
             (Done(c) /\ ~refreshed[Inst(c)] /\ ValidAt(calls[c].pre_token, now)
                 /\ \E a \in Instances \ {Inst(c)} :
                        refreshed[a] /\ _token[a] = calls[c].pre_token) =>
                 /\ calls[c].ndisc = 0
                 /\ calls[c].nref = 0
                 /\ calls[c].result = Headers(calls[c].pre_token))

C11_Witness ==
    \E c \in Calls :
        /\ Done(c)
        /\ ~refreshed[Inst(c)]
        /\ ValidAt(calls[c].pre_token, now)
        /\ \E a \in Instances \ {Inst(c)} :
               refreshed[a] /\ _token[a] = calls[c].pre_token
        /\ calls[c].pre_environ = calls[c].pre_token
        /\ calls[c].result = Headers(calls[c].pre_token)

(***************************************************************************)
(* C12: when an existing instance B holds an invalid token and CADC_TOKEN  *)
(* holds a valid token that another instance A obtained by a refresh, B's  *)
(* next header call returns the stored token and issues no discovery or    *)
(* refresh request of its own.                                             *)
(***************************************************************************)
C12_ReusesStoredToken ==
    \A c \in Calls :
        (Done(c) /\ ~calls[c].first_valid /\ ValidAt(calls[c].pre_environ, now)
            /\ \E a \in Instances \ {Inst(c)} :
                   refreshed[a] /\ _token[a] = calls[c].pre_environ) =>
            /\ calls[c].ndisc = 0
            /\ calls[c].nref = 0
            /\ calls[c].result = Headers(calls[c].pre_environ)

(***************************************************************************)
(* C13: the token a pickled-and-reconstructed instance has at its first    *)
(* use is the value of CADC_TOKEN, not the _token the original held when   *)
(* it was serialized.                                                      *)
(***************************************************************************)
C13_StoreWinsAfterTransfer ==
    [][\A c \in Calls, j \in Instances :
          (j \in unused /\ calls[c].pc = "idle" /\ calls'[c].pc = "check"
              /\ calls'[c].inst = j) =>
             calls'[c].pre_token = environ]_vars

(***************************************************************************)
(* C14: concurrent header calls that all start with an expired token and   *)
(* whose requests all succeed race harmlessly: a call that returns         *)
(* headers returns the token that passed its own validity check or a       *)
(* token that is valid, never an invalid one, and once all calls have      *)
(* finished CADC_TOKEN holds a body that one of their refreshes received.  *)
(***************************************************************************)
Expired(t, T) == HasExpiry(t) /\ FirstExpiry(t) <= T

AllStartedExpired ==
    \A d \in Calls :
        calls[d].pc # "idle" =>
            /\ ~calls[d].first_valid
            /\ Expired(calls[d].pre_token, now)
            /\ calls[d].result.kind # "error"

C14_BenignRace ==
    /\ [][\A c \in Calls :
             (calls[c].pc = "fast" /\ calls'[c].pc = "done" /\ AllStartedExpired) =>
                 /\ calls'[c].result.kind = "headers"
                 /\ \/ calls'[c].result = Headers(calls[c].checked)
                    \/ ValidAt(calls'[c].result.Authorization[2], now)]_vars
    /\ []((AllStartedExpired /\ \A d \in Calls : Done(d)) =>
             environ \in {calls[d].response_text : d \in Calls})

(***************************************************************************)
(* C15: the certificate file is looked for before endpoint discovery:      *)
(* with the file missing, a header call issues no discovery request and    *)
(* no refresh request.                                                     *)
(***************************************************************************)
C15_CertificateBeforeDiscovery ==
    \A c \in Calls :
        (calls[c].pc # "idle" /\ ~cert_exists) =>
            /\ calls[c].ndisc = 0
            /\ calls[c].nref = 0

(***************************************************************************)
(* C16: the authorization endpoint is not cached: every refresh request    *)
(* follows a discovery request of its own in the same evaluation of token  *)
(* and goes to the url that this discovery returned.                       *)
(***************************************************************************)
C16_EndpointResolvedPerRefresh ==
    \A c \in Calls :
        /\ calls[c].nref <= calls[c].ndisc
        /\ calls[c].ndisc <= calls[c].nref + 1
        /\ calls[c].requested # NoUrl =>
              /\ calls[c].requested \in Urls
              /\ calls[c].requested = calls[c].discovered
              /\ calls[c].ndisc = calls[c].nref

C16_Witness ==
    \E c \in Calls :
        /\ calls[c].pc = "setenv"
        /\ calls[c].nref = 2
        /\ calls[c].requested = "https://auth2.example/token"
        /\ calls[c].requested = calls[c].discovered

(***************************************************************************)
(* C17: CADC_TOKEN is never unset once set, and its value changes only in  *)
(* the store step of a refresh whose discovery and refresh requests both   *)
(* succeeded, to the body of that refresh response; construction,          *)
(* validity checks, the fast path and failed refreshes do not change it.   *)
(***************************************************************************)
C17_StoreLifecycle ==
    [][/\ environ # None => environ' # None
       /\ environ' # environ =>
             \E c \in Calls :
                 /\ calls[c].pc = "setenv"
                 /\ calls'[c].pc = "settoken"
                 /\ calls[c].nref >= 1
                 /\ calls[c].ndisc = calls[c].nref
                 /\ calls[c].requested = calls[c].discovered
                 /\ calls[c].result = NoResult
                 /\ calls[c].response_text \in Strings
                 /\ environ' = calls[c].response_text]_vars

C17_Witness ==
    \E c \in Calls :
        /\ calls[c].pc = "settoken"
        /\ environ = calls[c].response_text
        /\ environ # calls[c].pre_environ
        /\ calls[c].pre_environ # None

(***************************************************************************)
(* C18: when a header call returns headers, the token in them is the one   *)
(* that passed the validity check of the call, and it is not absent or     *)
(* malformed.                                                              *)
(***************************************************************************)
C18_ReturnedTokenValidated ==
    \A c \in Calls :
        (Done(c) /\ calls[c].result.kind = "headers") =>
            /\ calls[c].result = Headers(calls[c].checked)
            /\ ~Malformed(calls[c].result.Authorization[2])

TypeOK ==
    /\ environ \in Tokens
    /\ \A i \in Instances : _token[i] \in Tokens
    /\ now \in 0 .. MaxTime
    /\ \A c \in Calls : calls[c].pc \in
          {"idle", "check", "fast", "discover", "refresh", "setenv", "settoken", "recurse", "done"}
====
